---- MODULE Spec2Model ----
(***************************************************************************)
(* Signaling relay and room-membership state machine of the WebRTC         *)
(* application: backend/src/socket/socketHandler.ts (class SocketHandler). *)
(*                                                                         *)
(* Node runs every Socket.io event handler to completion on one thread, so *)
(* each handler is one atomic action.  Strings (room ids, user names) are  *)
(* sequences of one-character strings; a user id `user-${Date.now()}` is   *)
(* the pair <<"user-", t>>.  The Japanese message text of an error is a    *)
(* constant of its code and is left out of the error record.               *)
(*                                                                         *)
(* The second part models the browser side of a call between two clients:  *)
(* the class WebRTCService and the call start of the VideoCall component.  *)
(* An async method runs to its next await in one step; what it awaits (a   *)
(* browser promise, a timer, another operation's promise) resumes it in a  *)
(* later step.                                                             *)
(***************************************************************************)
EXTENDS Naturals, Integers, Sequences, FiniteSets, TLC

(* ------------------------------ bounds --------------------------------- *)

\* Socket ids are 1..NumSockets; a socket id is never reused after disconnect.
NumSockets == 2

\* Date.now() runs from 0 to MaxClock (milliseconds).
MaxClock == 1

\* A behaviour of Spec handles at most MaxSteps events.
MaxSteps == 7

\* A behaviour of SpecSignaling handles at most MaxSignalingSteps events.
MaxSignalingSteps == 5

\* A behaviour of SpecMessaging handles at most MaxMessagingSteps events.
MaxMessagingSteps == 7

\* A behaviour of SpecSanitize handles at most MaxSanitizeSteps events.
MaxSanitizeSteps == 4

\* A behaviour of SpecMaintenance handles at most MaxMaintenanceSteps events
\* and lets the clock jump ahead by the cleanup threshold MaxSleeps times.
MaxMaintenanceSteps == 6

MaxSleeps == 1

\* A behaviour of SpecEvents handles at most MaxEventSteps events.
MaxEventSteps == 5

(* ------------------------- program constants --------------------------- *)

\* createRoom: maxUsers: 4
DefaultMaxUsers == 4

\* handleJoinRoom: roomId.length > 50 || userName.length > 50
MaxNameLength == 50

\* handleChatMessage: message.length > 500
MaxMessageLength == 500

\* cleanupInactiveRooms: cleanupThreshold, 24 hours in milliseconds
CleanupThreshold == 24 * 60 * 60 * 1000

(* ---------------------------- input domains ---------------------------- *)

SocketIds == 1..NumSockets

LongString == [i \in 1..(MaxNameLength + 1) |-> "x"]

Room1 == <<"r", "1">>
Room2 == <<"r", "2">>

\* A valid userName, with a character that sanitizeInput escapes.
Name1 == <<"a", "<">>

\* The join-room requests a client sends: the valid ones for two rooms, one
\* with an empty field and one with a field that is too long.
JoinRequests ==
    {[roomId |-> Room1, userName |-> Name1],
     [roomId |-> Room2, userName |-> Name1],
     [roomId |-> <<>>, userName |-> Name1],
     [roomId |-> Room1, userName |-> LongString]}

\* Opaque signaling payloads (SignalingMessage.data).
Payloads == {"sdp-1", "sdp-2"}

\* The three relayed event kinds.
RelayEvents == {"offer", "answer", "ice-candidate"}

(* ------------------------------- state --------------------------------- *)

VARIABLES
    sockets,    \* io.sockets.sockets: ids of the currently connected sockets
    closed,     \* ids of sockets that have disconnected (never reused)
    rooms,      \* this.rooms: Map roomId -> Room, a function on the live room ids
    users,      \* this.users: Map socketId -> User, as the sequence of its values
                \* in Map insertion order (the key of a value u is u.socketId)
    userData,   \* socket.userData, a function on the sockets that have it set
    now,        \* Date.now()
    issued,     \* history: the user ids generateUserId has returned so far
    stepsLeft,  \* the number of events the behaviour may still handle
    last,       \* the inbound event handled by the last step (for a join-room,
                \* with the rooms and users it found)
    sent        \* the emits of the last step, in order: [to, ev, data]

handlerVars ==
    <<sockets, closed, rooms, users, userData, now, issued, stepsLeft, last, sent>>

VARIABLES
    service,    \* per client: the fields of its WebRTCService instance, the
                \* RTCPeerConnection objects it created and its async calls
                \* that are waiting at an await
    videoCall,  \* per client: remoteUsers and connectedUsersRef of VideoCall
    channel,    \* per client: the messages the server has emitted to it and
                \* that it has not handled yet, oldest first
    gone,       \* the clients whose page was closed
    forged,     \* the number of offers sent so far by other sockets under a
                \* client's user id
    delivered,  \* history, per client: the messages it has handled (a
                \* user-left with the number of calls begun before it)
    event       \* the client step taken last

clientVars == <<service, videoCall, channel, gone, forged, delivered, event>>

vars == <<handlerVars, clientVars>>

store == <<rooms, users, userData>>

(* ---------------------------- Map helpers ------------------------------ *)

\* Map.prototype.set on a function-shaped map.
MapPut(m, k, v) == [x \in (DOMAIN m) \cup {k} |-> IF x = k THEN v ELSE m[x]]

\* Map.prototype.delete on a function-shaped map.
MapDel(m, k) == [x \in (DOMAIN m) \ {k} |-> m[x]]

\* this.users.set(socketId, user): an existing key keeps its place in the
\* iteration order, a new key goes to the end.
UsersSet(us, u) ==
    IF \E i \in 1..Len(us) : us[i].socketId = u.socketId
    THEN [i \in 1..Len(us) |-> IF us[i].socketId = u.socketId THEN u ELSE us[i]]
    ELSE Append(us, u)

\* this.users.delete(socketId)
UsersDelete(us, sid) == SelectSeq(us, LAMBDA u : u.socketId # sid)

(* --------------------------- pure functions ---------------------------- *)

RECURSIVE ReplaceAll(_, _, _)
\* String.prototype.replace(/ch/g, rep): every character ch becomes rep, the
\* others stay; the string is split in halves so that a long one is handled
\* in few nested steps.
ReplaceAll(s, ch, rep) ==
    IF Len(s) = 0 THEN <<>>
    ELSE IF Len(s) = 1 THEN (IF s[1] = ch THEN rep ELSE s)
    ELSE LET mid == Len(s) \div 2 IN
         ReplaceAll(SubSeq(s, 1, mid), ch, rep)
         \o ReplaceAll(SubSeq(s, mid + 1, Len(s)), ch, rep)

\* sanitizeInput: six replace passes, in the order of the source.
SanitizeInput(input) ==
    LET s1 == ReplaceAll(input, "&", <<"&", "a", "m", "p", ";">>)
        s2 == ReplaceAll(s1, "<", <<"&", "l", "t", ";">>)
        s3 == ReplaceAll(s2, ">", <<"&", "g", "t", ";">>)
        s4 == ReplaceAll(s3, "\"", <<"&", "q", "u", "o", "t", ";">>)
        s5 == ReplaceAll(s4, "'", <<"&", "#", "x", "2", "7", ";">>)
    IN  ReplaceAll(s5, "/", <<"&", "#", "x", "2", "F", ";">>)

\* generateUserId: `user-${Date.now()}`
GenerateUserId(t) == <<"user-", t>>

\* createError(code, message): the code and the timestamp.
CreateError(code, t) == [code |-> code, timestamp |-> t]

\* One emit: socket.emit(ev, data) on the socket with id `to`.
Emit(to, ev, data) == [to |-> to, ev |-> ev, data |-> data]

\* sendError(socket, code, message): socket.emit('error', { error })
SendError(sid, code, t) == Emit(sid, "error", [error |-> CreateError(code, t)])

\* createRoom(roomId): the new Room object.
CreateRoom(roomId, t) ==
    [id |-> roomId, users |-> <<>>, maxUsers |-> DefaultMaxUsers, createdAt |-> t]

\* findUserById: the first value of this.users, in iteration order, with that id.
HasUserById(us, userId) == \E i \in 1..Len(us) : us[i].id = userId

FindUserById(us, userId) ==
    us[CHOOSE i \in 1..Len(us) :
          /\ us[i].id = userId
          /\ \A j \in 1..(i - 1) : us[j].id # userId]

\* The emits of a forEach over a user list that looks each socket up in
\* io.sockets.sockets and skips the ones that are not there.
RECURSIVE EmitToEach(_, _, _, _)
EmitToEach(list, live, ev, data) ==
    IF list = <<>> THEN <<>>
    ELSE (IF Head(list).socketId \in live
          THEN <<Emit(Head(list).socketId, ev, data)>>
          ELSE <<>>) \o EmitToEach(Tail(list), live, ev, data)

\* socket.emit on the handler's own socket: a packet for a socket that has
\* already disconnected is discarded.
EmitToSelf(sid, live, ev, data) ==
    IF sid \in live THEN <<Emit(sid, ev, data)>> ELSE <<>>

(* ------------------------------- Init ---------------------------------- *)

\* The handler after construction: no socket, no room, no user.
InitHandler ==
    /\ sockets = {}
    /\ closed = {}
    /\ rooms = <<>>
    /\ users = <<>>
    /\ userData = <<>>
    /\ now = 0
    /\ issued = {}
    /\ last = [op |-> "init"]
    /\ sent = <<>>

\* The two clients of a room, named by their user ids.
Clients == {"A", "B"}

\* null, for a description that is not set.
None == [type |-> "none"]

\* WebRTCService, field initialisers; pcs holds every RTCPeerConnection the
\* service has created (closed ones stay reachable from the calls that hold
\* them), tasks the async calls waiting at an await, spawned their count,
\* removed the streams of the 'remote-stream-removed' events emitted.
NewService ==
    [peerConnections |-> <<>>, localStream |-> FALSE, remoteStreams |-> <<>>,
     connectionOperations |-> <<>>, pcs |-> <<>>, tasks |-> <<>>,
     spawned |-> 0, removed |-> <<>>]

\* No client has loaded the page.
InitNoClient ==
    /\ service = [c \in Clients |-> NewService]
    /\ videoCall = [c \in Clients |-> [remoteUsers |-> {}, connectedUsers |-> {}]]
    /\ channel = [c \in Clients |-> <<>>]
    /\ gone = {}
    /\ forged = 0
    /\ delivered = [c \in Clients |-> {}]
    /\ event = [op |-> "init"]

Init == InitHandler /\ InitNoClient /\ stepsLeft = MaxSteps

\* The server handles one event; no client takes a step.
CountStep == stepsLeft > 0 /\ stepsLeft' = stepsLeft - 1 /\ UNCHANGED clientVars

(* ---------------------------- handlers -------------------------------- *)

\* handleJoinRoom, the capacity test: room.users.length >= room.maxUsers
RoomIsFull(room) == Len(room.users) >= room.maxUsers

\* handleJoinRoom: room.users.filter(user => user.id !== userId)
ExistingUsers(roomUsers, userId) == SelectSeq(roomUsers, LAMBDA u : u.id # userId)

\* JoinValidation with the length test on the roomId alone.
JoinValidationRoomIdOnly(roomId, userName) ==
    IF roomId = <<>> \/ userName = <<>> THEN "INVALID_REQUEST"
    ELSE IF Len(roomId) > MaxNameLength THEN "INVALID_LENGTH"
         ELSE ""

\* handleJoinRoom: the validation of the request; "" when it passes.
JoinValidation(roomId, userName) ==
    IF roomId = <<>> \/ userName = <<>> THEN "INVALID_REQUEST"
    ELSE IF Len(roomId) > MaxNameLength \/ Len(userName) > MaxNameLength
         THEN "INVALID_LENGTH"
         ELSE ""

\* handleJoinRoom: this.rooms.get(roomId), or createRoom(roomId), which also
\* stores the new room in this.rooms.
RoomsAfterLookup(rs, roomId, t) ==
    IF roomId \in DOMAIN rs THEN rs ELSE MapPut(rs, roomId, CreateRoom(roomId, t))

\* handleJoinRoom: the new User object.
NewUser(sid, roomId, userName, t) ==
    [id |-> GenerateUserId(t), name |-> SanitizeInput(userName),
     socketId |-> sid, roomId |-> roomId]

\* handleJoinRoom: the emits of a successful join, room-joined to the joiner
\* and then user-joined to each existing user whose socket is connected.
JoinEmits(sid, room, newUser, live) ==
    LET existingUsers == ExistingUsers(room.users, newUser.id)
    IN  <<Emit(sid, "room-joined",
               [room |-> room, user |-> newUser, existingUsers |-> existingUsers])>>
        \o EmitToEach(existingUsers, live, "user-joined", newUser)

\* RejectFull without its return: the errors go out and the handler goes on
\* to append the new user.
RejectFullNoReturn(sid, rs1, roomId) ==
    LET newUser == NewUser(sid, roomId, Name1, now)
        room2 == [rs1[roomId] EXCEPT !.users = Append(@, newUser)]
    IN  [rooms |-> MapPut(rs1, roomId, room2),
         users |-> UsersSet(users, newUser),
         userData |-> MapPut(userData, sid, newUser),
         joined |-> FALSE,
         sent |-> <<SendError(sid, "ROOM_FULL", now),
                    Emit(sid, "room-full", [error |-> CreateError("ROOM_FULL", now)])>>
                  \o JoinEmits(sid, room2, newUser, sockets)]

\* RejectFull with the room-full event sent to the users of the room as well.
RejectFullToRoom(sid, rs1, roomId) ==
    [rooms |-> rs1, users |-> users, userData |-> userData,
     joined |-> FALSE,
     sent |-> <<SendError(sid, "ROOM_FULL", now),
                Emit(sid, "room-full", [error |-> CreateError("ROOM_FULL", now)])>>
              \o EmitToEach(rs1[roomId].users, sockets, "room-full",
                            [error |-> CreateError("ROOM_FULL", now)])]

\* handleJoinRoom, the branch taken when the room is full: error and room-full
\* to the requester, then return.
RejectFull(sid, rs1, roomId) ==
    [rooms |-> rs1, users |-> users, userData |-> userData,
     joined |-> FALSE,
     sent |-> <<SendError(sid, "ROOM_FULL", now),
                Emit(sid, "room-full", [error |-> CreateError("ROOM_FULL", now)])>>]

\* A userName that is not a string: the JSON number 7.  It is truthy and has
\* neither a length (7.length > 50 is false) nor a replace method; its one
\* element is not a character.
NotAString == <<"number 7">>

IsString(v) == v # NotAString

\* handleJoinRoom when sanitizeInput(userName) throws a TypeError: the catch
\* block sends INTERNAL_ERROR; the room map is as the room lookup left it.
JoinThrows(sid, rs1) ==
    [rooms |-> rs1, users |-> users, userData |-> userData,
     joined |-> FALSE, sent |-> <<SendError(sid, "INTERNAL_ERROR", now)>>]

\* handleJoinRoom(socket, request): the state and the emits it leaves behind.
HandleJoinRoom(sid, roomId, userName) ==
    LET code == JoinValidation(roomId, userName)
        rs1 == RoomsAfterLookup(rooms, roomId, now)
        room == rs1[roomId]
        newUser == NewUser(sid, roomId, userName, now)
        room2 == [room EXCEPT !.users = Append(@, newUser)]
    IN  IF code # ""
        THEN [rooms |-> rooms, users |-> users, userData |-> userData,
              joined |-> FALSE, sent |-> <<SendError(sid, code, now)>>]
        ELSE IF RoomIsFull(room)
        THEN RejectFull(sid, rs1, roomId)
        ELSE IF ~IsString(userName)
        THEN JoinThrows(sid, rs1)
        ELSE [rooms |-> MapPut(rs1, roomId, room2),
              users |-> UsersSet(users, newUser),
              userData |-> MapPut(userData, sid, newUser),
              joined |-> TRUE,
              sent |-> JoinEmits(sid, room2, newUser, sockets)]

\* handleLeaveRoom: room.users.filter(u => u.id !== user.id)
RemainingUsers(roomUsers, user) == SelectSeq(roomUsers, LAMBDA u : u.id # user.id)

\* ClearUserData with the delete forgotten.
KeepUserData(ud, sid) == ud

\* handleLeaveRoom: delete socket.userData
ClearUserData(ud, sid) == MapDel(ud, sid)

\* RoomsAfterLeave without the deletion of the empty room.
RoomsAfterLeaveKeepEmpty(rs, roomId, remaining) ==
    MapPut(rs, roomId, [rs[roomId] EXCEPT !.users = remaining])

\* handleLeaveRoom: the room map after the leaver's room has been given the
\* filtered list; an empty room is deleted.
RoomsAfterLeave(rs, roomId, remaining) ==
    IF Len(remaining) = 0
    THEN MapDel(rs, roomId)
    ELSE MapPut(rs, roomId, [rs[roomId] EXCEPT !.users = remaining])

\* handleLeaveRoom: user-left to each remaining user whose socket is connected,
\* then room-left to the leaver.
LeaveEmits(sid, remaining, user, live) ==
    EmitToEach(remaining, live, "user-left", user)
    \o EmitToSelf(sid, live, "room-left", [success |-> TRUE])

\* handleLeaveRoom(socket), with `live` the sockets in io.sockets.sockets.
HandleLeaveRoom(sid, live) ==
    IF sid \notin DOMAIN userData
    THEN [rooms |-> rooms, users |-> users, userData |-> userData, sent |-> <<>>]
    ELSE LET user == userData[sid] IN
         IF user.roomId \notin DOMAIN rooms
         THEN [rooms |-> rooms, users |-> users, userData |-> userData, sent |-> <<>>]
         ELSE LET remaining == RemainingUsers(rooms[user.roomId].users, user) IN
              [rooms |-> RoomsAfterLeave(rooms, user.roomId, remaining),
               users |-> UsersDelete(users, sid),
               userData |-> ClearUserData(userData, sid),
               sent |-> LeaveEmits(sid, remaining, user, live)]

(* ------------------------------ actions -------------------------------- *)

\* io.on('connection'): a new socket; its handlers are registered.  Socket.io
\* gives every connection a new id: the ids are handed out in order.
Connect(sid) ==
    /\ CountStep
    /\ sid \notin sockets
    /\ sid \notin closed
    /\ \A other \in SocketIds : other < sid => other \in sockets \cup closed
    /\ sockets' = sockets \cup {sid}
    /\ last' = [op |-> "connection", socket |-> sid]
    /\ sent' = <<>>
    /\ UNCHANGED <<closed, rooms, users, userData, now, issued>>

\* The clock advances by a millisecond.
Tick ==
    /\ CountStep
    /\ now < MaxClock
    /\ now' = now + 1
    /\ last' = [op |-> "tick"]
    /\ sent' = <<>>
    /\ UNCHANGED <<sockets, closed, rooms, users, userData, issued>>

\* socket.on('join-room')
JoinRoom(sid, roomId, userName) ==
    /\ CountStep
    /\ sid \in sockets
    /\ LET r == HandleJoinRoom(sid, roomId, userName) IN
       /\ rooms' = r.rooms
       /\ users' = r.users
       /\ userData' = r.userData
       /\ sent' = r.sent
       /\ issued' = IF r.joined THEN issued \cup {GenerateUserId(now)} ELSE issued
       /\ last' = [op |-> "join-room", socket |-> sid, roomId |-> roomId,
                   userName |-> userName, joined |-> r.joined, before |-> store]
    /\ UNCHANGED <<sockets, closed, now>>

\* socket.on('leave-room')
LeaveRoom(sid) ==
    /\ CountStep
    /\ sid \in sockets
    /\ LET r == HandleLeaveRoom(sid, sockets) IN
       /\ rooms' = r.rooms
       /\ users' = r.users
       /\ userData' = r.userData
       /\ sent' = r.sent
    /\ last' = [op |-> "leave-room", socket |-> sid]
    /\ UNCHANGED <<sockets, closed, now, issued>>

\* HandleDisconnect as a handler that logs the disconnect and does no more.
HandleDisconnectLogOnly(sid, live) ==
    [rooms |-> rooms, users |-> users, userData |-> userData, sent |-> <<>>]

\* handleDisconnect(socket): a log line, then handleLeaveRoom(socket).
HandleDisconnect(sid, live) == HandleLeaveRoom(sid, live)

\* socket.on('disconnect'): Socket.io has taken the socket out of
\* io.sockets.sockets when the handler runs.
Disconnect(sid) ==
    /\ CountStep
    /\ sid \in sockets
    /\ sockets' = sockets \ {sid}
    /\ closed' = closed \cup {sid}
    /\ LET r == HandleDisconnect(sid, sockets \ {sid}) IN
       /\ rooms' = r.rooms
       /\ users' = r.users
       /\ userData' = r.userData
       /\ sent' = r.sent
    /\ last' = [op |-> "disconnect", socket |-> sid]
    /\ UNCHANGED <<now, issued>>

\* Rooms and membership: connection, join-room, leave-room, disconnect.
Next ==
    \/ \E sid \in SocketIds : Connect(sid)
    \/ Tick
    \/ \E sid \in SocketIds, req \in JoinRequests :
          JoinRoom(sid, req.roomId, req.userName)
    \/ \E sid \in SocketIds : LeaveRoom(sid)
    \/ \E sid \in SocketIds : Disconnect(sid)

Spec == Init /\ [][Next]_vars

(* --------------------------- signaling relay --------------------------- *)

\* The user ids a client can name in a message.
UserIdInputs == {GenerateUserId(t) : t \in 0..MaxClock}

\* The SignalingMessage objects a client sends with the event `ev`.
SignalingMessages(ev) ==
    {[fromUserId |-> f, toUserId |-> t, type |-> ev, data |-> d] :
        f \in UserIdInputs, t \in UserIdInputs, d \in Payloads}

\* RelayEmit as a handler copied from handleOffer with the event name left
\* as it was.
RelayEmitAsOffer(target, ev, message) == <<Emit(target.socketId, "offer", message)>>

\* targetSocket.emit(event, message): the message object goes out as received.
RelayEmit(target, ev, message) == <<Emit(target.socketId, ev, message)>>

\* The body shared by handleOffer, handleAnswer and handleIceCandidate:
\* findUserById, the socket lookup, the emit.  `reports` is TRUE for the two
\* handlers that call sendError when the target is missing or offline, FALSE
\* for handleIceCandidate, which only logs a warning.
Relay(ev, sid, message, reports) ==
    IF ~HasUserById(users, message.toUserId)
    THEN IF reports THEN <<SendError(sid, "USER_NOT_FOUND", now)>> ELSE <<>>
    ELSE LET targetUser == FindUserById(users, message.toUserId) IN
         IF targetUser.socketId \notin sockets
         THEN IF reports THEN <<SendError(sid, "USER_OFFLINE", now)>> ELSE <<>>
         ELSE RelayEmit(targetUser, ev, message)

HandleOffer(sid, message) == Relay("offer", sid, message, TRUE)

HandleAnswer(sid, message) == Relay("answer", sid, message, TRUE)

\* HandleIceCandidate as a copy of handleOffer that kept its sendError calls.
HandleIceCandidateReports(sid, message) == Relay("ice-candidate", sid, message, TRUE)

HandleIceCandidate(sid, message) == Relay("ice-candidate", sid, message, FALSE)

\* socket.on('offer')
Offer(sid, message) ==
    /\ CountStep
    /\ sid \in sockets
    /\ sent' = HandleOffer(sid, message)
    /\ last' = [op |-> "offer", socket |-> sid, message |-> message]
    /\ UNCHANGED <<sockets, closed, rooms, users, userData, now, issued>>

\* socket.on('answer')
Answer(sid, message) ==
    /\ CountStep
    /\ sid \in sockets
    /\ sent' = HandleAnswer(sid, message)
    /\ last' = [op |-> "answer", socket |-> sid, message |-> message]
    /\ UNCHANGED <<sockets, closed, rooms, users, userData, now, issued>>

\* socket.on('ice-candidate')
IceCandidate(sid, message) ==
    /\ CountStep
    /\ sid \in sockets
    /\ sent' = HandleIceCandidate(sid, message)
    /\ last' = [op |-> "ice-candidate", socket |-> sid, message |-> message]
    /\ UNCHANGED <<sockets, closed, rooms, users, userData, now, issued>>

\* Rooms, membership and the signaling relay.
NextSignaling ==
    \/ \E sid \in SocketIds : Connect(sid)
    \/ Tick
    \/ \E sid \in SocketIds, req \in JoinRequests :
          JoinRoom(sid, req.roomId, req.userName)
    \/ \E sid \in SocketIds : LeaveRoom(sid)
    \/ \E sid \in SocketIds : Disconnect(sid)
    \/ \E sid \in SocketIds, message \in SignalingMessages("offer") :
          Offer(sid, message)
    \/ \E sid \in SocketIds, message \in SignalingMessages("answer") :
          Answer(sid, message)
    \/ \E sid \in SocketIds, message \in SignalingMessages("ice-candidate") :
          IceCandidate(sid, message)

InitSignaling == InitHandler /\ InitNoClient /\ stepsLeft = MaxSignalingSteps

SpecSignaling == InitSignaling /\ [][NextSignaling]_vars

(* -------------------------------- chat --------------------------------- *)

\* Characters that String.prototype.trim removes.
Whitespace == {" ", "\t"}

\* String.prototype.trim
Trim(s) ==
    LET keep == {i \in 1..Len(s) : s[i] \notin Whitespace} IN
    IF keep = {} THEN <<>>
    ELSE SubSeq(s, CHOOSE i \in keep : \A j \in keep : i <= j,
                   CHOOSE i \in keep : \A j \in keep : i >= j)

\* The values of Math.random().toString(36).substr(2, 9) that are drawn.
RandomSuffixes == {"4fzzzxjyl", "k2j8x0q1m"}

\* generateMessageId: `msg-${Date.now()}-${random}`
GenerateMessageId(t, rnd) == <<"msg-", t, rnd>>

\* handleChatMessage: the checks before the message is built, in the order of
\* the source; "" when they pass.
ChatValidation(sid, roomId, message) ==
    IF sid \notin DOMAIN userData THEN "NOT_IN_ROOM"
    ELSE IF message = <<>> \/ Trim(message) = <<>> THEN "EMPTY_MESSAGE"
    ELSE IF Len(message) > MaxMessageLength THEN "MESSAGE_TOO_LONG"
    ELSE IF roomId # userData[sid].roomId THEN "ROOM_MISMATCH"
    ELSE ""

\* handleChatMessage: the ChatMessage object.
NewChatMessage(user, roomId, message, t, rnd) ==
    [id |-> GenerateMessageId(t, rnd),
     roomId |-> roomId,
     userId |-> user.id,
     userName |-> user.name,
     message |-> SanitizeInput(Trim(message)),
     timestamp |-> t,
     type |-> "text"]

\* handleChatMessage(socket, request): its emits.  When this.rooms has no room
\* with the request's id the handler ends without an emit.
HandleChatMessage(sid, roomId, message, rnd) ==
    LET code == ChatValidation(sid, roomId, message) IN
    IF code # "" THEN <<SendError(sid, code, now)>>
    ELSE IF roomId \notin DOMAIN rooms THEN <<>>
    ELSE EmitToEach(rooms[roomId].users, sockets, "chat-message-received",
                    [message |-> NewChatMessage(userData[sid], roomId, message, now, rnd)])

\* ChatMessageSend with the room looked up as handleJoinRoom does it: a room
\* that is missing is created.
ChatMessageSendCreatesRoom(sid, roomId, message, rnd) ==
    /\ CountStep
    /\ sid \in sockets
    /\ sent' = HandleChatMessage(sid, roomId, message, rnd)
    /\ rooms' = RoomsAfterLookup(rooms, roomId, now)
    /\ last' = [op |-> "chat-message-send", socket |-> sid, roomId |-> roomId,
                message |-> message]
    /\ UNCHANGED <<sockets, closed, users, userData, now, issued>>

\* socket.on('chat-message-send')
ChatMessageSend(sid, roomId, message, rnd) ==
    /\ CountStep
    /\ sid \in sockets
    /\ sent' = HandleChatMessage(sid, roomId, message, rnd)
    /\ last' = [op |-> "chat-message-send", socket |-> sid, roomId |-> roomId,
                message |-> message]
    /\ UNCHANGED <<sockets, closed, rooms, users, userData, now, issued>>

\* A chat body with a character that sanitizeInput escapes.
Body1 == <<"h", "<">>

\* The valid join-room requests for the two rooms.
MessagingJoinRequests ==
    {req \in JoinRequests : JoinValidation(req.roomId, req.userName) = ""}

\* One signaling message for each user id a client can name as the target.
ProbeMessages(ev) ==
    {m \in SignalingMessages(ev) : m.fromUserId = GenerateUserId(0) /\ m.data = "sdp-1"}

\* The chat-message-send requests: a body and an empty body for each room.
ChatRequests == {[roomId |-> r, message |-> m] : r \in {Room1, Room2}, m \in {Body1, <<>>}}

\* Rooms, membership, the signaling relay and chat, with the valid join
\* requests and one message of each kind.
NextMessaging ==
    \/ \E sid \in SocketIds : Connect(sid)
    \/ Tick
    \/ \E sid \in SocketIds, req \in MessagingJoinRequests :
          JoinRoom(sid, req.roomId, req.userName)
    \/ \E sid \in SocketIds : LeaveRoom(sid)
    \/ \E sid \in SocketIds : Disconnect(sid)
    \/ \E sid \in SocketIds, message \in ProbeMessages("offer") :
          Offer(sid, message)
    \/ \E sid \in SocketIds, message \in ProbeMessages("answer") :
          Answer(sid, message)
    \/ \E sid \in SocketIds, message \in ProbeMessages("ice-candidate") :
          IceCandidate(sid, message)
    \/ \E sid \in SocketIds, req \in ChatRequests, rnd \in RandomSuffixes :
          ChatMessageSend(sid, req.roomId, req.message, rnd)

InitMessaging == InitHandler /\ InitNoClient /\ stepsLeft = MaxMessagingSteps

SpecMessaging == InitMessaging /\ [][NextMessaging]_vars

(* ------------------- length limits and sanitizeInput ------------------- *)

\* n times the character ch.
Repeat(ch, n) == [i \in 1..n |-> ch]

\* A userName of the greatest accepted length, all of it escaped.
EscapedName == Repeat("<", MaxNameLength)

\* The join-room requests that differ in the userName: a short one, one of 50
\* characters and one of 51.
NameRequests ==
    {[roomId |-> Room1, userName |-> n] : n \in {Name1, EscapedName, LongString}}

\* The chat bodies: short, empty, blank, padded with blanks, of 501 characters,
\* of 499 characters followed by two blanks, and of 500 escaped characters.
ChatBodies ==
    {Body1, <<>>, <<" ", "\t">>, <<" ", "h", " ">>,
     Repeat("x", MaxMessageLength + 1),
     Repeat("x", MaxMessageLength - 1) \o <<" ", " ">>,
     Repeat("<", MaxMessageLength)}

\* Joins and chat messages at the length limits.
NextSanitize ==
    \/ \E sid \in SocketIds : Connect(sid)
    \/ \E sid \in SocketIds, req \in NameRequests :
          JoinRoom(sid, req.roomId, req.userName)
    \/ \E sid \in SocketIds, message \in ChatBodies, rnd \in RandomSuffixes :
          ChatMessageSend(sid, Room1, message, rnd)

InitSanitize == InitHandler /\ InitNoClient /\ stepsLeft = MaxSanitizeSteps

SpecSanitize == InitSanitize /\ [][NextSanitize]_vars

(* ---------------------- reaper and debug snapshots --------------------- *)

\* IsInactive with the age compared by >=.
IsInactiveAtThreshold(room, t) ==
    Len(room.users) = 0 /\ t - room.createdAt >= CleanupThreshold

\* A room that cleanupInactiveRooms deletes at time t: no users, and older
\* than the threshold.
IsInactive(room, t) ==
    Len(room.users) = 0 /\ t - room.createdAt > CleanupThreshold

\* cleanupInactiveRooms(): the room map after the sweep at time t.
CleanupInactiveRooms(rs, t) ==
    [r \in {x \in DOMAIN rs : ~IsInactive(rs[x], t)} |-> rs[r]]

\* The empty string in the place of a socket id: the id of no socket.
EmptySocketId == 0

\* ScrubUser that copies the user as it is.
CopyUser(u) == u

\* getRooms / getConnectedUsers: ({ ...user, socketId: '' })
ScrubUser(u) == [u EXCEPT !.socketId = EmptySocketId]

\* getRooms(): a copy of every room with the users scrubbed, by room id (the
\* order of the array is not modelled).
GetRooms(rs) ==
    [r \in DOMAIN rs |->
        [rs[r] EXCEPT !.users = [i \in 1..Len(rs[r].users) |-> ScrubUser(rs[r].users[i])]]]

\* getConnectedUsers(): the values of this.users, scrubbed.
GetConnectedUsers(us) == [i \in 1..Len(us) |-> ScrubUser(us[i])]

\* The setInterval callback of startCleanupTimer.
Cleanup ==
    /\ CountStep
    /\ rooms' = CleanupInactiveRooms(rooms, now)
    /\ last' = [op |-> "cleanup", deleted |-> DOMAIN rooms \ DOMAIN rooms']
    /\ sent' = <<>>
    /\ UNCHANGED <<sockets, closed, users, userData, now, issued>>

\* The clock jumps ahead by the cleanup threshold.
Sleep ==
    /\ CountStep
    /\ now < MaxSleeps * CleanupThreshold
    /\ now' = now + CleanupThreshold
    /\ last' = [op |-> "sleep"]
    /\ sent' = <<>>
    /\ UNCHANGED <<sockets, closed, rooms, users, userData, issued>>

\* GET /api/rooms
GetRoomsRequest ==
    /\ CountStep
    /\ last' = [op |-> "get-rooms", result |-> GetRooms(rooms)]
    /\ sent' = <<>>
    /\ UNCHANGED <<sockets, closed, rooms, users, userData, now, issued>>

\* GET /api/users
GetUsersRequest ==
    /\ CountStep
    /\ last' = [op |-> "get-users", result |-> GetConnectedUsers(users)]
    /\ sent' = <<>>
    /\ UNCHANGED <<sockets, closed, rooms, users, userData, now, issued>>

\* The join-room requests: a userName that is a string and one that is not,
\* for each of the two rooms.
MaintenanceJoinRequests ==
    {[roomId |-> r, userName |-> n] : r \in {Room1, Room2}, n \in {Name1, NotAString}}

\* Rooms and membership with the reaper and the debug snapshots.
NextMaintenance ==
    \/ \E sid \in SocketIds : Connect(sid)
    \/ Tick
    \/ Sleep
    \/ \E sid \in SocketIds, req \in MaintenanceJoinRequests :
          JoinRoom(sid, req.roomId, req.userName)
    \/ \E sid \in SocketIds : LeaveRoom(sid)
    \/ \E sid \in SocketIds : Disconnect(sid)
    \/ Cleanup
    \/ GetRoomsRequest
    \/ GetUsersRequest

InitMaintenance == InitHandler /\ InitNoClient /\ stepsLeft = MaxMaintenanceSteps

SpecMaintenance == InitMaintenance /\ [][NextMaintenance]_vars

\* The events of SpecMessaging in shorter behaviours.
InitEvents == InitHandler /\ InitNoClient /\ stepsLeft = MaxEventSteps

SpecEvents == InitEvents /\ [][NextMessaging]_vars

(* ----------------------- vocabulary of the claims ----------------------- *)

\* The member list of room r in the room map rs; empty when r is not a room.
RoomUsers(rs, r) == IF r \in DOMAIN rs THEN rs[r].users ELSE <<>>

\* How many of the emits in `out` carry event ev to socket sid.
CountEmits(out, sid, ev) ==
    Cardinality({i \in 1..Len(out) : out[i].to = sid /\ out[i].ev = ev})

\* How many of the emits in `out` carry event ev.
CountEvent(out, ev) == Cardinality({i \in 1..Len(out) : out[i].ev = ev})

\* How many records of the list belong to socket sid.
CountRecords(list, sid) ==
    Cardinality({i \in 1..Len(list) : list[i].socketId = sid})

\* The step handled a join-room that succeeded / a leave-room or disconnect.
JoinedStep == last'.op = "join-room" /\ last'.joined

LeaveStep == last'.op \in {"leave-room", "disconnect"}

\* The error codes carried by the error emits of `out`.
ErrorCodes(out) ==
    {out[i].data.error.code : i \in {j \in 1..Len(out) : out[j].ev = "error"}}

(* ------------------------------- C1 ------------------------------------ *)

RoomsWithinCapacity ==
    \A r \in DOMAIN rooms :
        /\ rooms[r].maxUsers = DefaultMaxUsers
        /\ Len(rooms[r].users) <= rooms[r].maxUsers

\* A valid join-room for a room that holds maxUsers records is answered with
\* ROOM_FULL and room-full for the requester and changes nothing.
FullRoomRejects ==
    (/\ last'.op = "join-room"
     /\ JoinValidation(last'.roomId, last'.userName) = ""
     /\ Len(RoomUsers(rooms, last'.roomId)) >= DefaultMaxUsers)
    => /\ ~last'.joined
       /\ store' = store
       /\ ErrorCodes(sent') = {"ROOM_FULL"}
       /\ CountEmits(sent', last'.socket, "room-full") = 1
       /\ CountEvent(sent', "room-joined") = 0

\* A join-room that succeeds adds exactly one record to its room.
JoinAddsOne ==
    JoinedStep =>
        Len(rooms'[last'.roomId].users) = Len(RoomUsers(rooms, last'.roomId)) + 1

\* C1: every room holds at most maxUsers (4) records in every reachable state;
\* a join-room for a room that already holds maxUsers records fails with
\* ROOM_FULL and appends nothing, and every successful join adds exactly one
\* record, so a fresh room admits at most maxUsers joins.
C1_Capacity ==
    /\ []RoomsWithinCapacity
    /\ [][FullRoomRejects /\ JoinAddsOne]_vars

\* A fifth join-room has just been refused by a room that holds four records.
C1_Witness ==
    /\ last.op = "join-room"
    /\ ~last.joined
    /\ "ROOM_FULL" \in ErrorCodes(sent)
    /\ Len(RoomUsers(rooms, last.roomId)) = DefaultMaxUsers

(* ------------------------------- C2 ------------------------------------ *)

\* C2: when a socket that is a member of room A sends a join-room for another
\* room B that succeeds, its record is gone from A's list after the step and
\* every user that remains in A has been sent user-left for it.
C2_LeaveThenJoin ==
    [][(/\ JoinedStep
        /\ last'.socket \in DOMAIN userData
        /\ userData[last'.socket].roomId # last'.roomId)
       => LET old == userData[last'.socket]
              stay == RoomUsers(rooms', old.roomId)
          IN  /\ \A i \in 1..Len(stay) : stay[i] # old
              /\ \A i \in 1..Len(stay) :
                    \E k \in 1..Len(sent') :
                        /\ sent'[k].to = stay[i].socketId
                        /\ sent'[k].ev = "user-left"
                        /\ sent'[k].data = old]_vars

(* ------------------------------- C3 ------------------------------------ *)

\* The places <<room id, index>> of the records that belong to socket sid.
SlotsOf(sid) ==
    {p \in UNION {{<<r, i>> : i \in 1..Len(rooms[r].users)} : r \in DOMAIN rooms} :
        rooms[p[1]].users[p[2]].socketId = sid}

\* C3: in every reachable state, across the member lists of all rooms there is
\* at most one record whose socketId is a given socket.
C3_OneSlotPerConnection == \A sid \in SocketIds : Cardinality(SlotsOf(sid)) <= 1

(* ------------------------------- C6 ------------------------------------ *)

\* A leave-room or disconnect from a socket without userData, or whose room is
\* not in the room map, changes nothing and emits nothing.
LeaveWithoutMembershipIsNoOp ==
    (/\ LeaveStep
     /\ \/ last'.socket \notin DOMAIN userData
        \/ userData[last'.socket].roomId \notin DOMAIN rooms)
    => store' = store /\ sent' = <<>>

\* A leave-room or disconnect from a member sends no error, and one user-left
\* for every record that remains in the room, to that record's socket (a
\* socket that has disconnected cannot be sent anything).
LeaveNotifiesOncePerRemaining ==
    (/\ LeaveStep
     /\ last'.socket \in DOMAIN userData
     /\ userData[last'.socket].roomId \in DOMAIN rooms)
    => LET user == userData[last'.socket]
           remaining == RoomUsers(rooms', user.roomId)
       IN  /\ CountEvent(sent', "error") = 0
           /\ \A i \in 1..Len(sent') :
                 sent'[i].ev = "user-left" => sent'[i].data = user
           /\ \A sid \in SocketIds :
                 CountEmits(sent', sid, "user-left")
                   = IF sid \in sockets' THEN CountRecords(remaining, sid) ELSE 0

\* After a leave-room or disconnect, a second handleLeaveRoom for the same
\* socket changes nothing and emits nothing.
SecondLeaveIsNoOp ==
    last.op \in {"leave-room", "disconnect"}
    => LET again == HandleLeaveRoom(last.socket, sockets)
       IN  /\ again.rooms = rooms
           /\ again.users = users
           /\ again.userData = userData
           /\ again.sent = <<>>

LastLeaveDeletesRoom ==
    (/\ LeaveStep
     /\ last'.socket \in DOMAIN userData
     /\ RoomUsers(rooms, userData[last'.socket].roomId) = <<userData[last'.socket]>>)
    => userData[last'.socket].roomId \notin DOMAIN rooms'

\* A successful join-room for a room id that is not in the room map creates
\* the room, and the joiner's room-joined carries no existing users.
JoinAfterTeardownIsFresh ==
    (JoinedStep /\ last'.roomId \notin DOMAIN rooms)
    => /\ rooms'[last'.roomId].users = <<userData'[last'.socket]>>
       /\ rooms'[last'.roomId].createdAt = now
       /\ \E i \in 1..Len(sent') :
             /\ sent'[i].to = last'.socket
             /\ sent'[i].ev = "room-joined"
             /\ sent'[i].data.existingUsers = <<>>
       /\ CountEvent(sent', "room-joined") = 1

C8_LeaveNotifiesRemainingOnly ==
    [][(/\ LeaveStep
        /\ last'.socket \in DOMAIN userData
        /\ userData[last'.socket].roomId \in DOMAIN rooms)
       => LET room == userData[last'.socket].roomId IN
          \A sid \in SocketIds :
              CountEmits(sent', sid, "user-left")
                = IF /\ sid # last'.socket
                     /\ sid \in DOMAIN userData'
                     /\ userData'[sid].roomId = room
                  THEN 1 ELSE 0]_vars

(* ------------------------------- C9 ------------------------------------ *)

\* C9: a successful join-room appends exactly one record at the end of the
\* room's list, sends room-joined to the joiner only, with existingUsers equal
\* to the list before the join, and sends exactly one user-joined carrying the
\* new user to each of those members and to no one else, never to the joiner.
C9_JoinResult ==
    [][JoinedStep
       => LET before == RoomUsers(rooms, last'.roomId)
              newUser == userData'[last'.socket]
          IN  /\ rooms'[last'.roomId].users = Append(before, newUser)
              /\ CountEvent(sent', "room-joined") = 1
              /\ \E i \in 1..Len(sent') :
                    /\ sent'[i].ev = "room-joined"
                    /\ sent'[i].to = last'.socket
                    /\ sent'[i].data.existingUsers = before
              /\ \A i \in 1..Len(sent') :
                    sent'[i].ev = "user-joined" => sent'[i].data = newUser
              /\ CountEmits(sent', last'.socket, "user-joined") = 0
              /\ \A sid \in SocketIds \ {last'.socket} :
                    CountEmits(sent', sid, "user-joined") = CountRecords(before, sid)]_vars

(* ------------------------------- C10 ----------------------------------- *)

\* C10: every successful join-room assigns a user id that no earlier join was
\* given, so the records in the rooms are unique by id.
C10_FreshMemberId ==
    [][JoinedStep => userData'[last'.socket].id \notin issued]_vars

(* ------------------------------- C4 ------------------------------------ *)

\* C4: every offer, answer and ice-candidate the server forwards for a sender
\* that has joined carries, as fromUserId, the user id the server gave that
\* sender at join, whatever the client put in the field.
C4_FromStampedByServer ==
    (last.op \in RelayEvents /\ last.socket \in DOMAIN userData)
    => \A i \in 1..Len(sent) :
          sent[i].ev \in RelayEvents
          => sent[i].data.fromUserId = userData[last.socket].id

(* ------------------------------- C5 ------------------------------------ *)

\* C5: when the toUserId of an offer, answer or ice-candidate resolves, through
\* the member index, to a user whose socket is connected, exactly one message
\* is emitted: to that user's socket, under the event it came in with, with
\* the toUserId and the payload the sender sent.
C5_RelayFidelity ==
    (/\ last.op \in RelayEvents
     /\ HasUserById(users, last.message.toUserId)
     /\ FindUserById(users, last.message.toUserId).socketId \in sockets)
    => /\ Len(sent) = 1
       /\ sent[1].to = FindUserById(users, last.message.toUserId).socketId
       /\ sent[1].ev = last.op
       /\ sent[1].data.toUserId = last.message.toUserId
       /\ sent[1].data.data = last.message.data
       /\ sent[1].data.type = last.message.type

\* An answer has been relayed from one socket to the socket of another member.
C5_Witness ==
    /\ last.op = "answer"
    /\ Len(sent) = 1
    /\ sent[1].ev = "answer"
    /\ sent[1].to # last.socket
    /\ sent[1].data.data = "sdp-2"
    /\ \E i \in 1..Len(users) :
          users[i].socketId = sent[1].to /\ users[i].id = last.message.toUserId

(* ------------------------------- C11 ----------------------------------- *)

\* The emits of `out` that go to a socket other than sid.
ToOthers(out, sid) == SelectSeq(out, LAMBDA e : e.to # sid)

\* The characters sanitizeInput replaces, the ampersand aside.
RawHtmlChars == {"<", ">", "\"", "'", "/"}

\* C11: a disconnect of a socket leaves the room map, the users map and the
\* socket's userData as a leave-room from that socket, handled in the same
\* state, would leave them, and sends the other sockets the same emits.
C11_DisconnectEqualsLeave ==
    [][last'.op = "disconnect"
       => LET asLeave == HandleLeaveRoom(last'.socket, sockets)
          IN  /\ rooms' = asLeave.rooms
              /\ users' = asLeave.users
              /\ userData' = asLeave.userData
              /\ ToOthers(sent', last'.socket) = ToOthers(asLeave.sent, last'.socket)]_vars

\* A member has disconnected and the member that remains in its room was
\* sent user-left.
C11_Witness ==
    /\ last.op = "disconnect"
    /\ CountEvent(sent, "user-left") = 1
    /\ sent[1].to # last.socket
    /\ last.socket \notin DOMAIN userData
    /\ Len(users) = 1

(* ------------------------------- C12 ----------------------------------- *)

\* The step handled a chat-message-send that passed every check of the
\* handler: the sender has userData, the body is not blank and not longer
\* than 500 characters, the room id is that of the sender's userData.
ChatAcceptedStep ==
    /\ last'.op = "chat-message-send"
    /\ last'.socket \in DOMAIN userData
    /\ Trim(last'.message) # <<>>
    /\ Len(last'.message) <= MaxMessageLength
    /\ last'.roomId = userData[last'.socket].roomId

\* C12: a chat-message-send that passes validation sends chat-message-received
\* exactly once to every socket whose membership is in the sender's room, the
\* sender included, and all of them carry the same ChatMessage.
C12_ChatFanOut ==
    [][ChatAcceptedStep
       => /\ \A sid \in SocketIds :
                (sid \in sockets /\ sid \in DOMAIN userData
                    /\ userData[sid].roomId = last'.roomId)
                => CountEmits(sent', sid, "chat-message-received") = 1
          /\ \A i, j \in 1..Len(sent') : sent'[i].data = sent'[j].data]_vars

(* ------------------------------- C13 ----------------------------------- *)

\* C13: a chat-message-received for a message sent to room R goes only to
\* sockets whose membership is in R: a socket without userData, or whose
\* userData names another room, is sent none.
C13_ChatIsolation ==
    [][last'.op = "chat-message-send"
       => \A i \in 1..Len(sent') :
             sent'[i].ev = "chat-message-received"
             => /\ sent'[i].to \in DOMAIN userData
                /\ userData[sent'[i].to].roomId = sent'[i].data.message.roomId]_vars

(* ------------------------------- C14 ----------------------------------- *)

\* The toUserId of the message handled by the step belongs to no user of the
\* users map whose socket is connected.
TargetNotLive ==
    ~\E i \in 1..Len(users) :
        users[i].id = last'.message.toUserId /\ users[i].socketId \in sockets

\* C14: an offer or answer whose toUserId does not resolve to a live member
\* is answered with one error of code USER_NOT_FOUND to the sender, and
\* nothing is sent to any other socket.
C14_RelayTargetMissing ==
    [][(last'.op \in {"offer", "answer"} /\ TargetNotLive)
       => /\ Len(sent') = 1
          /\ sent'[1].to = last'.socket
          /\ ErrorCodes(sent') = {"USER_NOT_FOUND"}]_vars

(* ------------------------------- C15 ----------------------------------- *)

\* C15: an ice-candidate whose toUserId does not resolve to a live member
\* makes the server emit nothing, to the sender or to anyone else, and
\* changes no room, no user and no socket.
C15_CandidateDroppedSilently ==
    [][(last'.op = "ice-candidate" /\ TargetNotLive)
       => /\ sent' = <<>>
          /\ store' = store
          /\ sockets' = sockets]_vars

\* An ice-candidate for a user id that no user of the users map carries has
\* been handled while another user was in a room.
C15_Witness ==
    /\ last.op = "ice-candidate"
    /\ users # <<>>
    /\ ~HasUserById(users, last.message.toUserId)
    /\ sent = <<>>

(* ------------------------------- C16 ----------------------------------- *)

\* The event handled by the step did not achieve its effect: a join-room that
\* added no user, an offer or answer that was not forwarded, a
\* chat-message-send that was delivered to no one, a leave-room from a socket
\* with userData that removed nothing.
EventFailed ==
    \/ last'.op = "join-room" /\ ~last'.joined
    \/ last'.op \in {"offer", "answer"} /\ CountEvent(sent', last'.op) = 0
    \/ last'.op = "chat-message-send" /\ CountEvent(sent', "chat-message-received") = 0
    \/ last'.op = "leave-room" /\ last'.socket \in DOMAIN userData /\ store' = store

\* C16: every join-room, offer, answer, chat-message-send or leave-room that
\* does not achieve its effect sends an error to the socket it came from.
C16_FailuresReported ==
    [][EventFailed => CountEmits(sent', last'.socket, "error") >= 1]_vars

(* ------------------------------- C17 ----------------------------------- *)

\* C17: a chat-message-send from a socket without userData fails with
\* NOT_IN_ROOM, one whose roomId differs from the room of the sender's
\* userData fails with ROOM_MISMATCH; in both cases the only emit is the
\* error to the sender.
C17_ChatMembershipChecks ==
    [][last'.op = "chat-message-send"
       => /\ last'.socket \notin DOMAIN userData
             => sent' = <<SendError(last'.socket, "NOT_IN_ROOM", now)>>
          /\ (/\ last'.socket \in DOMAIN userData
              /\ last'.roomId # userData[last'.socket].roomId)
             => sent' = <<SendError(last'.socket, "ROOM_MISMATCH", now)>>]_vars

(* ------------------------------- C18 ----------------------------------- *)

\* C18: for a chat-message-send from a member to its own room, a body that is
\* empty after trimming is rejected with EMPTY_MESSAGE, a body whose trimmed
\* length exceeds 500 with MESSAGE_TOO_LONG, and a body whose trimmed length
\* is between 1 and 500 is accepted: no error, and the message is delivered.
C18_TrimmedBodyValidation ==
    [][(/\ last'.op = "chat-message-send"
        /\ last'.socket \in DOMAIN userData
        /\ last'.roomId = userData[last'.socket].roomId)
       => LET n == Len(Trim(last'.message)) IN
          /\ n = 0 => ErrorCodes(sent') = {"EMPTY_MESSAGE"}
          /\ n > MaxMessageLength => ErrorCodes(sent') = {"MESSAGE_TOO_LONG"}
          /\ (n >= 1 /\ n <= MaxMessageLength)
             => /\ CountEvent(sent', "error") = 0
                /\ CountEmits(sent', last'.socket, "chat-message-received") = 1]_vars

(* ------------------------------- C19 ----------------------------------- *)

\* C19: the body of every ChatMessage in a chat-message-received holds none
\* of the characters sanitizeInput escapes and is at most 500 characters long.
C19_ChatBodyEscapedAndCapped ==
    \A i \in 1..Len(sent) :
        sent[i].ev = "chat-message-received"
        => LET body == sent[i].data.message.message IN
           /\ \A k \in 1..Len(body) : body[k] \notin RawHtmlChars
           /\ Len(body) <= MaxMessageLength

(* ------------------------------- C20 ----------------------------------- *)

\* C20: the name of every user stored in a room's list or in the users map
\* holds none of the characters sanitizeInput escapes and is at most 50
\* characters long.
C20_NameEscapedAndCapped ==
    /\ \A r \in DOMAIN rooms : \A i \in 1..Len(rooms[r].users) :
          LET name == rooms[r].users[i].name IN
          /\ \A k \in 1..Len(name) : name[k] \notin RawHtmlChars
          /\ Len(name) <= MaxNameLength
    /\ \A i \in 1..Len(users) :
          LET name == users[i].name IN
          /\ \A k \in 1..Len(name) : name[k] \notin RawHtmlChars
          /\ Len(name) <= MaxNameLength

(* ------------------------------- C21 ----------------------------------- *)

\* The step handled a join-room with an empty roomId or userName / with no
\* empty field and a roomId or userName of more than 50 characters.
JoinEmptyFieldStep ==
    /\ last'.op = "join-room"
    /\ (last'.roomId = <<>> \/ last'.userName = <<>>)

JoinLongFieldStep ==
    /\ last'.op = "join-room"
    /\ last'.roomId # <<>> /\ last'.userName # <<>>
    /\ (Len(last'.roomId) > MaxNameLength \/ Len(last'.userName) > MaxNameLength)

\* The join-room of the step was refused with the one error `code`, sent to
\* the requester only, and changed no room and no user.
JoinRefusedWith(code) ==
    /\ ~last'.joined
    /\ sent' = <<SendError(last'.socket, code, now)>>
    /\ store' = store

C22_RoomFullRejection ==
    [][(last'.op = "join-room" /\ "ROOM_FULL" \in ErrorCodes(sent'))
       => /\ RoomUsers(rooms', last'.roomId) = RoomUsers(rooms, last'.roomId)
          /\ users' = users
          /\ userData' = userData
          /\ Len(sent') = 2
          /\ \A i \in 1..Len(sent') : sent'[i].to = last'.socket
          /\ CountEvent(sent', "error") = 1
          /\ CountEvent(sent', "room-full") = 1
          /\ CountEvent(sent', "user-joined") = 0]_vars

\* A join-room has just been refused with room-full by a room in which the
\* other socket has a record.
C22_Witness ==
    /\ last.op = "join-room"
    /\ CountEmits(sent, last.socket, "room-full") = 1
    /\ \E sid \in sockets \ {last.socket} :
          CountRecords(RoomUsers(rooms, last.roomId), sid) >= 1

(* ------------------------------- C24 ----------------------------------- *)

\* C24: when every socket has disconnected or, still connected, has no
\* userData (it never joined, or it has left), no room and no entry of the
\* users map is left, whatever joins came before.
C24_NoLeakUnderChurn ==
    (\A sid \in sockets : sid \notin DOMAIN userData)
    => rooms = <<>> /\ users = <<>>

(* ------------------------------- C28 ----------------------------------- *)

\* The records of the users map, as a set.
IndexEntries == {users[i] : i \in 1..Len(users)}

\* C28: a record is in the list of room R exactly when it is the users-map
\* entry of its socket and names R as its room, once only, and every roomId
\* of the users map names a room of the room map.
C28_IndexConsistency ==
    /\ \A r \in DOMAIN rooms : \A i \in 1..Len(rooms[r].users) :
          LET u == rooms[r].users[i] IN
          /\ u \in IndexEntries
          /\ u.roomId = r
          /\ \A j \in 1..Len(rooms[r].users) : rooms[r].users[j] = u => j = i
    /\ \A u \in IndexEntries :
          /\ u.roomId \in DOMAIN rooms
          /\ \E i \in 1..Len(rooms[u.roomId].users) : rooms[u.roomId].users[i] = u

(* ------------------------------- C30 ----------------------------------- *)

\* C30: a leave-room or disconnect by socket c leaves the records of every
\* other socket where they are, in c's room and in every other room, and
\* leaves the users-map entry of every other socket unchanged.
C30_LeaveTouchesOnlyLeaver ==
    [][(LeaveStep /\ last'.socket \in DOMAIN userData)
       => LET c == last'.socket
              Others(list) == SelectSeq(list, LAMBDA u : u.socketId # c)
          IN  /\ \A r \in DOMAIN rooms :
                    Others(RoomUsers(rooms', r)) = Others(rooms[r].users)
              /\ Others(users') = Others(users)
              /\ \A r \in DOMAIN rooms :
                    r # userData[c].roomId => r \in DOMAIN rooms' /\ rooms'[r] = rooms[r]]_vars

(* ------------------------------- C25 ----------------------------------- *)

C26_RelayAndChatAreReadOnly ==
    [][/\ last'.op \in RelayEvents \cup {"chat-message-send"}
          => rooms' = rooms /\ users' = users /\ userData' = userData
       /\ (rooms' # rooms \/ users' # users)
          => last'.op \in {"join-room", "leave-room", "disconnect", "cleanup"}]_vars

\* A chat message has been delivered to two sockets.
C26_Witness ==
    /\ last.op = "chat-message-send"
    /\ CountEvent(sent, "chat-message-received") = 2
    /\ Len(users) = 2

(* ------------------------------- C27 ----------------------------------- *)

\* The record u with every field but socketId, and the empty socketId.
IsScrubbed(copy, u) ==
    /\ copy.socketId = EmptySocketId
    /\ copy.socketId \notin SocketIds
    /\ copy.id = u.id /\ copy.name = u.name /\ copy.roomId = u.roomId

C29_NoEmptyRoom == \A r \in DOMAIN rooms : Len(rooms[r].users) > 0

(* ------------------------------- C31 ----------------------------------- *)

\* C31: when a socket without userData joins a room and its next event, the
\* next the server handles, is a leave-room, the room map, with every user
\* list in its order, and the users map are again what they were before the
\* join.
C31_JoinLeaveRoundTrip ==
    [][(/\ last.op = "join-room" /\ last.joined
        /\ last.socket \notin DOMAIN last.before[3]
        /\ last'.op = "leave-room"
        /\ last'.socket = last.socket)
       => /\ rooms' = last.before[1]
          /\ users' = last.before[2]]_vars

(* ------------------------------- C32 ----------------------------------- *)

\* C32: an offer, answer or ice-candidate is forwarded only when the sender
\* has userData and the socket it is forwarded to has userData for the
\* sender's room.
C32_SignalingStaysInRoom ==
    last.op \in RelayEvents
    => \A i \in 1..Len(sent) :
          sent[i].ev \in RelayEvents
          => /\ last.socket \in DOMAIN userData
             /\ sent[i].to \in DOMAIN userData
             /\ userData[sent[i].to].roomId = userData[last.socket].roomId

(* ======================= the browser client ============================ *)

\* ICE candidates a peer connection gathers once its local description is set.
MaxCandidates == 1

\* Offers that sockets other than a client's own send under its user id (the
\* server forwards them unchanged).
MaxForged == 1

\* The other client of the room.
Peer(c) == CHOOSE d \in Clients : d # c

\* new RTCPeerConnection(RTC_CONFIG) with the handlers createPeerConnection
\* binds to userId.  No media path is modelled, so connectionState is "new"
\* until close().
NewPeerConnection(userId) ==
    [userId |-> userId, signalingState |-> "stable", connectionState |-> "new",
     localDescription |-> None, remoteDescription |-> None,
     added |-> {}, gathered |-> 0]

\* createPeerConnection(userId) followed by this.peerConnections.set.
CreatePeerConnection(s, userId) ==
    [s EXCEPT !.pcs = Append(@, NewPeerConnection(userId)),
              !.peerConnections = MapPut(@, userId, Len(s.pcs) + 1)]

\* closePeerConnection(userId): close and forget the peer connection, then
\* forget the remote stream and emit 'remote-stream-removed' for it.
ClosePeerConnection(s, userId) ==
    LET s1 == IF userId \in DOMAIN s.peerConnections
              THEN [s EXCEPT
                      !.pcs[s.peerConnections[userId]].signalingState = "closed",
                      !.pcs[s.peerConnections[userId]].connectionState = "closed",
                      !.peerConnections = MapDel(@, userId)]
              ELSE s
    IN  IF userId \in DOMAIN s.remoteStreams
        THEN [s1 EXCEPT !.remoteStreams = MapDel(@, userId),
                        !.removed = Append(@, s.remoteStreams[userId])]
        ELSE s1

\* An async call waiting at the await `at`: the method, the remote user id,
\* the peer connection it holds (0: none yet), the description or candidate
\* it carries and, at "lock", the operation whose promise it awaits.
Task(fn, at, userId, pc, data, op) ==
    [fn |-> fn, at |-> at, userId |-> userId, pc |-> pc, data |-> data, op |-> op]

PutTask(s, t, task) == [s EXCEPT !.tasks = MapPut(@, t, task)]

\* performInitiateCall up to its first await: with a peer connection for the
\* target it closes it and waits 100 ms, without one it creates one and
\* awaits createOffer.
PerformInitiateCall(s, t, targetUserId) ==
    IF targetUserId \in DOMAIN s.peerConnections
    THEN PutTask(ClosePeerConnection(s, targetUserId), t,
                 Task("initiateCall", "cleanup", targetUserId, 0, None, 0))
    ELSE PutTask(CreatePeerConnection(s, targetUserId), t,
                 Task("initiateCall", "createOffer", targetUserId,
                      Len(s.pcs) + 1, None, 0))

\* initiateCall(targetUserId), up to its first await.  Without a local stream
\* it throws; with an operation running for the target it awaits that
\* operation and returns; else it starts performInitiateCall and records it.
InitiateCall(s, targetUserId) ==
    LET t == s.spawned + 1
        s1 == [s EXCEPT !.spawned = t]
    IN  IF ~s.localStream THEN s
        ELSE IF targetUserId \in DOMAIN s.connectionOperations
        THEN PutTask(s1, t, Task("initiateCall", "lock", targetUserId, 0, None,
                                 s.connectionOperations[targetUserId]))
        ELSE [PerformInitiateCall(s1, t, targetUserId)
                 EXCEPT !.connectionOperations = MapPut(@, targetUserId, t)]

\* performHandleOffer from `new RTCPeerConnection` to its next await: the wait
\* for the local stream, or setRemoteDescription(offer).
AnswerWithNewConnection(s, t, fromUserId, offer) ==
    PutTask(CreatePeerConnection(s, fromUserId), t,
            Task("handleOffer",
                 IF s.localStream THEN "setRemoteDescription" ELSE "waitStream",
                 fromUserId, Len(s.pcs) + 1, offer, 0))

\* performHandleOffer up to its first await.
PerformHandleOffer(s, t, fromUserId, offer) ==
    IF fromUserId \in DOMAIN s.peerConnections
    THEN PutTask(ClosePeerConnection(s, fromUserId), t,
                 Task("handleOffer", "cleanup", fromUserId, 0, offer, 0))
    ELSE AnswerWithNewConnection(s, t, fromUserId, offer)

\* handleOffer after its wait: start performHandleOffer and record it.
StartHandleOffer(s, t, fromUserId, offer) ==
    [PerformHandleOffer(s, t, fromUserId, offer)
        EXCEPT !.connectionOperations = MapPut(@, fromUserId, t)]

\* handleOffer(data), up to its first await: with an operation running for
\* the sender it awaits that operation first.
ServiceHandleOffer(s, fromUserId, offer) ==
    LET t == s.spawned + 1
        s1 == [s EXCEPT !.spawned = t]
    IN  IF fromUserId \in DOMAIN s.connectionOperations
        THEN PutTask(s1, t, Task("handleOffer", "lock", fromUserId, 0, offer,
                                 s.connectionOperations[fromUserId]))
        ELSE StartHandleOffer(s1, t, fromUserId, offer)

\* The test of handleAnswer without the signalingState comparison.
AnswerApplicableAnyState(s, fromUserId) ==
    /\ fromUserId \in DOMAIN s.peerConnections
    /\ s.pcs[s.peerConnections[fromUserId]].connectionState # "closed"

\* handleAnswer, its three tests: a peer connection for the sender exists, is
\* not closed and is in signalingState have-local-offer.
AnswerApplicable(s, fromUserId) ==
    /\ fromUserId \in DOMAIN s.peerConnections
    /\ s.pcs[s.peerConnections[fromUserId]].connectionState # "closed"
    /\ s.pcs[s.peerConnections[fromUserId]].signalingState = "have-local-offer"

\* handleAnswer(data), up to its await of setRemoteDescription(answer).
ServiceHandleAnswer(s, fromUserId, answer) ==
    IF AnswerApplicable(s, fromUserId)
    THEN PutTask([s EXCEPT !.spawned = @ + 1], s.spawned + 1,
                 Task("handleAnswer", "setRemoteDescription", fromUserId,
                      s.peerConnections[fromUserId], answer, 0))
    ELSE s

\* handleIceCandidate, its tests: a peer connection for the sender exists, is
\* not closed and has a remote description (the candidates of the model are
\* never empty).
CandidateApplicable(s, fromUserId) ==
    /\ fromUserId \in DOMAIN s.peerConnections
    /\ s.pcs[s.peerConnections[fromUserId]].connectionState # "closed"
    /\ s.pcs[s.peerConnections[fromUserId]].remoteDescription # None

\* handleIceCandidate(data), up to its await of addIceCandidate.
ServiceHandleIceCandidate(s, fromUserId, candidate) ==
    IF CandidateApplicable(s, fromUserId)
    THEN PutTask([s EXCEPT !.spawned = @ + 1], s.spawned + 1,
                 Task("handleIceCandidate", "addIceCandidate", fromUserId,
                      s.peerConnections[fromUserId], candidate, 0))
    ELSE s

\* The description createOffer returns for peer connection k of client `me`,
\* and the one createAnswer returns once `offer` is its remote description.
CreateOffer(me, k) == [type |-> "offer", by |-> me, pc |-> k]
CreateAnswer(me, k, offer) == [type |-> "answer", by |-> me, pc |-> k, to |-> offer]

\* The object handed to socketService.sendMessage.
Message(type, fromUserId, toUserId, data) ==
    [type |-> type, fromUserId |-> fromUserId, toUserId |-> toUserId,
     data |-> data]

IsClosed(s, k) == s.pcs[k].connectionState = "closed"

\* The result of resuming a call: the service, the messages sent, and whether
\* the call's promise stays pending ("no") or is settled.
Resumed(s, out, settled) == [s |-> s, out |-> out, settled |-> settled]

\* performInitiateCall resumed at its await.  createOffer and
\* setLocalDescription reject on a closed peer connection; the catch block
\* rethrows.
ContinueInitiateCall(s, me, t) ==
    LET task == s.tasks[t]
        k == task.pc
    IN  CASE task.at = "cleanup" ->
               Resumed(PutTask(CreatePeerConnection(s, task.userId), t,
                               Task("initiateCall", "createOffer", task.userId,
                                    Len(s.pcs) + 1, None, 0)),
                       <<>>, "no")
          [] task.at = "createOffer" ->
               IF IsClosed(s, k) THEN Resumed(s, <<>>, "rejected")
               ELSE Resumed(PutTask(s, t, [task EXCEPT
                                             !.at = "setLocalDescription",
                                             !.data = CreateOffer(me, k)]),
                            <<>>, "no")
          [] task.at = "setLocalDescription" ->
               IF IsClosed(s, k) THEN Resumed(s, <<>>, "rejected")
               ELSE Resumed([s EXCEPT
                               !.pcs[k].localDescription = task.data,
                               !.pcs[k].signalingState = "have-local-offer"],
                            <<Message("offer", me, task.userId, task.data)>>,
                            "resolved")

\* performHandleOffer resumed at its await.  Its catch block swallows every
\* rejection, so its promise always resolves.  setRemoteDescription(offer)
\* fires ontrack, which stores the remote stream under the sender's id.
ContinueHandleOffer(s, me, t) ==
    LET task == s.tasks[t]
        k == task.pc
    IN  CASE task.at = "cleanup" ->
               Resumed(AnswerWithNewConnection(s, t, task.userId, task.data),
                       <<>>, "no")
          [] task.at = "waitStream" ->
               IF IsClosed(s, k) THEN Resumed(s, <<>>, "resolved")
               ELSE Resumed(PutTask(s, t, [task EXCEPT
                                             !.at = "setRemoteDescription"]),
                            <<>>, "no")
          [] task.at = "setRemoteDescription" ->
               IF IsClosed(s, k) THEN Resumed(s, <<>>, "resolved")
               ELSE Resumed(PutTask([s EXCEPT
                                       !.pcs[k].remoteDescription = task.data,
                                       !.pcs[k].signalingState = "have-remote-offer",
                                       !.remoteStreams = MapPut(@, task.userId, k)],
                                    t, [task EXCEPT !.at = "createAnswer"]),
                            <<>>, "no")
          [] task.at = "createAnswer" ->
               IF IsClosed(s, k) THEN Resumed(s, <<>>, "resolved")
               ELSE Resumed(PutTask(s, t, [task EXCEPT
                                             !.at = "setLocalDescription",
                                             !.data = CreateAnswer(me, k, task.data)]),
                            <<>>, "no")
          [] task.at = "setLocalDescription" ->
               IF IsClosed(s, k) THEN Resumed(s, <<>>, "resolved")
               ELSE Resumed([s EXCEPT
                               !.pcs[k].localDescription = task.data,
                               !.pcs[k].signalingState = "stable"],
                            <<Message("answer", me, task.userId, task.data)>>,
                            "resolved")

\* handleAnswer resumed at setRemoteDescription(answer), which rejects unless
\* the peer connection is still in have-local-offer; the rejection is caught.
ContinueHandleAnswer(s, me, t) ==
    LET task == s.tasks[t]
        k == task.pc
    IN  IF s.pcs[k].signalingState # "have-local-offer"
        THEN Resumed(s, <<>>, "resolved")
        ELSE Resumed([s EXCEPT
                        !.pcs[k].remoteDescription = task.data,
                        !.pcs[k].signalingState = "stable",
                        !.remoteStreams = MapPut(@, task.userId, k)],
                     <<>>, "resolved")

\* handleIceCandidate resumed at addIceCandidate, which rejects on a closed
\* peer connection; the rejection is caught.
ContinueHandleIceCandidate(s, me, t) ==
    LET task == s.tasks[t]
        k == task.pc
    IN  IF IsClosed(s, k) THEN Resumed(s, <<>>, "resolved")
        ELSE Resumed([s EXCEPT !.pcs[k].added = @ \cup {task.data}],
                     <<>>, "resolved")

Continue(s, me, t) ==
    CASE s.tasks[t].fn = "initiateCall" -> ContinueInitiateCall(s, me, t)
      [] s.tasks[t].fn = "handleOffer" -> ContinueHandleOffer(s, me, t)
      [] s.tasks[t].fn = "handleAnswer" -> ContinueHandleAnswer(s, me, t)
      [] s.tasks[t].fn = "handleIceCandidate" ->
            ContinueHandleIceCandidate(s, me, t)

\* initiateCall and handleOffer own a connection operation.
ConnectionMethods == {"initiateCall", "handleOffer"}

\* The calls awaiting the promise of operation t, in the order they began to
\* wait.
Waiters(s, t) ==
    {w \in DOMAIN s.tasks : s.tasks[w].at = "lock" /\ s.tasks[w].op = t}

Earliest(ws) == CHOOSE w \in ws : \A x \in ws : w <= x

\* The reactions to a settled operation promise, run in registration order:
\* a waiting initiateCall returns (or rethrows), a waiting handleOffer goes
\* on to start performHandleOffer (or, on a rejection, throws).
RECURSIVE Wake(_, _, _)
Wake(s, ws, settled) ==
    IF ws = {} THEN s
    ELSE LET w == Earliest(ws)
             task == s.tasks[w]
             s1 == [s EXCEPT !.tasks = MapDel(@, w)]
         IN  Wake(IF task.fn = "handleOffer" /\ settled = "resolved"
                  THEN StartHandleOffer(s1, w, task.userId, task.data)
                  ELSE s1,
                  ws \ {w}, settled)

\* The promise of operation t settles: its caller's `finally` deletes the
\* connectionOperations entry of the user id, then the waiters react.
Settle(s, t, settled) ==
    Wake([s EXCEPT !.tasks = MapDel(@, t),
                   !.connectionOperations = MapDel(@, s.tasks[t].userId)],
         Waiters(s, t), settled)

\* The service after call t has been resumed with result r.
AfterResume(s, t, r) ==
    IF r.settled = "no" THEN r.s
    ELSE IF s.tasks[t].fn \in ConnectionMethods THEN Settle(r.s, t, r.settled)
    ELSE [r.s EXCEPT !.tasks = MapDel(@, t)]

(* --------------------------- client steps ------------------------------ *)

\* The server forwards each sent message to the socket of its toUserId; a
\* client whose page is closed has no socket.
Post(ch, out) ==
    [c \in Clients |->
        ch[c] \o SelectSeq(out, LAMBDA m : m.toUserId = c /\ c \notin gone)]

\* VideoCall.tryStartConnections: with a local stream and a remote user that
\* is not in connectedUsersRef, call initiateCall for it and remember it.
TryStartConnections(c) ==
    /\ c \notin gone
    /\ service[c].localStream
    /\ Peer(c) \in videoCall[c].remoteUsers \ videoCall[c].connectedUsers
    /\ service' = [service EXCEPT ![c] = InitiateCall(@, Peer(c))]
    /\ videoCall' = [videoCall EXCEPT ![c].connectedUsers = @ \cup {Peer(c)}]
    /\ event' = [op |-> "initiateCall", client |-> c, escaped |-> FALSE]
    /\ UNCHANGED <<handlerVars, channel, gone, forged, delivered>>

\* The listeners of setupSocketListeners, applied to message m.
Listener(s, m) ==
    CASE m.type = "offer" -> ServiceHandleOffer(s, m.fromUserId, m.data)
      [] m.type = "answer" -> ServiceHandleAnswer(s, m.fromUserId, m.data)
      [] m.type = "ice-candidate" ->
            ServiceHandleIceCandidate(s, m.fromUserId, m.data)
      [] m.type = "user-left" -> ClosePeerConnection(s, m.userId)

\* VideoCall.handleUserLeft
HandleUserLeft(v, m) ==
    IF m.type = "user-left"
    THEN [remoteUsers |-> v.remoteUsers \ {m.userId},
          connectedUsers |-> v.connectedUsers \ {m.userId}]
    ELSE v

\* The entry of `delivered` for message m.
Handled(s, m) ==
    IF m.type = "user-left"
    THEN [type |-> m.type, userId |-> m.userId, spawned |-> s.spawned]
    ELSE m

\* The client handles the oldest message the server emitted to it.
Deliver(c) ==
    /\ c \notin gone
    /\ channel[c] # <<>>
    /\ LET m == Head(channel[c])
       IN  /\ service' = [service EXCEPT ![c] = Listener(@, m)]
           /\ videoCall' = [videoCall EXCEPT ![c] = HandleUserLeft(@, m)]
           /\ delivered' = [delivered EXCEPT ![c] = @ \cup {Handled(service[c], m)}]
           /\ event' = [op |-> m.type, client |-> c, message |-> m,
                        escaped |-> FALSE]
    /\ channel' = [channel EXCEPT ![c] = Tail(@)]
    /\ UNCHANGED <<handlerVars, gone, forged>>

\* The promise or timer that call t of client c awaits is settled and the
\* call runs to its next await.  A call that waits for the local stream goes
\* on when the stream is set.
Resume(c, t) ==
    /\ c \notin gone
    /\ t \in DOMAIN service[c].tasks
    /\ service[c].tasks[t].at # "lock"
    /\ service[c].tasks[t].at = "waitStream" => service[c].localStream
    /\ LET r == Continue(service[c], c, t)
       IN  /\ service' = [service EXCEPT ![c] = AfterResume(service[c], t, r)]
           /\ channel' = Post(channel, r.out)
           /\ event' = [op |-> "resume", client |-> c,
                        fn |-> service[c].tasks[t].fn,
                        at |-> service[c].tasks[t].at,
                        escaped |-> (r.settled = "rejected")]
    /\ UNCHANGED <<handlerVars, videoCall, gone, forged, delivered>>

\* onicecandidate: peer connection k of client c, its local description set,
\* gathers a candidate and sends it to the user id it was created for.
GatherCandidate(c, k) ==
    /\ c \notin gone
    /\ k \in 1..Len(service[c].pcs)
    /\ ~IsClosed(service[c], k)
    /\ service[c].pcs[k].localDescription # None
    /\ service[c].pcs[k].gathered < MaxCandidates
    /\ service' = [service EXCEPT ![c].pcs[k].gathered = @ + 1]
    /\ channel' = Post(channel,
                       <<Message("ice-candidate", c, service[c].pcs[k].userId,
                                 [by |-> c, pc |-> k,
                                  n |-> service[c].pcs[k].gathered + 1])>>)
    /\ event' = [op |-> "onicecandidate", client |-> c, escaped |-> FALSE]
    /\ UNCHANGED <<handlerVars, videoCall, gone, forged, delivered>>

\* Two clients in one room, each with its local stream set and the other in
\* its remoteUsers, before either has called initiateCall.
InitCall ==
    /\ InitHandler
    /\ stepsLeft = 0
    /\ service = [c \in Clients |-> [NewService EXCEPT !.localStream = TRUE]]
    /\ videoCall = [c \in Clients |->
                      [remoteUsers |-> {Peer(c)}, connectedUsers |-> {}]]
    /\ channel = [c \in Clients |-> <<>>]
    /\ gone = {}
    /\ forged = 0
    /\ delivered = [c \in Clients |-> {}]
    /\ event = [op |-> "init"]

NextCall ==
    \/ \E c \in Clients : TryStartConnections(c)
    \/ \E c \in Clients : Deliver(c)
    \/ \E c \in Clients : \E t \in DOMAIN service[c].tasks : Resume(c, t)
    \/ \E c \in Clients : \E k \in 1..Len(service[c].pcs) : GatherCandidate(c, k)

SpecCall == InitCall /\ [][NextCall]_vars

\* The offer/answer exchange alone, without candidates.
NextOfferAnswer ==
    \/ \E c \in Clients : TryStartConnections(c)
    \/ \E c \in Clients : Deliver(c)
    \/ \E c \in Clients : \E t \in DOMAIN service[c].tasks : Resume(c, t)

SpecOfferAnswer == InitCall /\ [][NextOfferAnswer]_vars

\* Every message is handled and every awaited promise settles: the event loop
\* of a browser runs whatever is ready.
SpecCallFair == SpecCall /\ WF_vars(NextCall)

(* -------------------- the client and its environment ------------------ *)

\* VideoCall.startLocalStream hands the stream to setLocalStream.
SetLocalStream(c) ==
    /\ c \notin gone
    /\ ~service[c].localStream
    /\ service' = [service EXCEPT ![c].localStream = TRUE]
    /\ event' = [op |-> "setLocalStream", client |-> c, escaped |-> FALSE]
    /\ UNCHANGED <<handlerVars, videoCall, channel, gone, forged, delivered>>

\* waitForLocalStream gives up after 10 s without a local stream and
\* performHandleOffer returns.
StreamTimeout(c, t) ==
    /\ c \notin gone
    /\ t \in DOMAIN service[c].tasks
    /\ service[c].tasks[t].at = "waitStream"
    /\ ~service[c].localStream
    /\ service' = [service EXCEPT ![c] = Settle(@, t, "resolved")]
    /\ event' = [op |-> "timeout", client |-> c, escaped |-> FALSE]
    /\ UNCHANGED <<handlerVars, videoCall, channel, gone, forged, delivered>>

\* Another socket sends an offer under the user id of c's peer; handleOffer
\* of the server forwards it to c as it is.
ForgeOffer(c) ==
    /\ c \notin gone
    /\ forged < MaxForged
    /\ forged' = forged + 1
    /\ channel' = Post(channel,
                       <<Message("offer", Peer(c), c,
                                 CreateOffer("forged", forged + 1))>>)
    /\ event' = [op |-> "forge", client |-> c, escaped |-> FALSE]
    /\ UNCHANGED <<handlerVars, service, videoCall, gone, delivered>>

\* The page of client c is closed: its socket disconnects and the server
\* emits user-left with its user id to the rest of the room.
ClosePage(c) ==
    /\ c \notin gone
    /\ gone' = gone \cup {c}
    /\ channel' = [d \in Clients |->
                     IF d # c /\ d \notin gone
                     THEN Append(channel[d], [type |-> "user-left", userId |-> c])
                     ELSE channel[d]]
    /\ event' = [op |-> "close", client |-> c, escaped |-> FALSE]
    /\ UNCHANGED <<handlerVars, service, videoCall, forged, delivered>>

\* Two clients in one room, each with the other in its remoteUsers, before
\* either has its local stream.
InitClient ==
    /\ InitHandler
    /\ stepsLeft = 0
    /\ service = [c \in Clients |-> NewService]
    /\ videoCall = [c \in Clients |->
                      [remoteUsers |-> {Peer(c)}, connectedUsers |-> {}]]
    /\ channel = [c \in Clients |-> <<>>]
    /\ gone = {}
    /\ forged = 0
    /\ delivered = [c \in Clients |-> {}]
    /\ event = [op |-> "init"]

NextClient ==
    \/ \E c \in Clients : SetLocalStream(c)
    \/ \E c \in Clients : TryStartConnections(c)
    \/ \E c \in Clients : Deliver(c)
    \/ \E c \in Clients : \E t \in DOMAIN service[c].tasks : Resume(c, t)
    \/ \E c \in Clients : \E t \in DOMAIN service[c].tasks : StreamTimeout(c, t)
    \/ \E c \in Clients : ForgeOffer(c)
    \/ \E c \in Clients : ClosePage(c)

SpecClient == InitClient /\ [][NextClient]_vars

(* ------------------------------- C33 ----------------------------------- *)

\* The performInitiateCall and performHandleOffer runs of client c for the
\* remote user id u that have started and not finished.
RunningOperations(c, u) ==
    {t \in DOMAIN service[c].tasks :
        /\ service[c].tasks[t].fn \in ConnectionMethods
        /\ service[c].tasks[t].at # "lock"
        /\ service[c].tasks[t].userId = u}

\* C33: a WebRTCService never has two connection operations running for the
\* same remote user id, however many calls and offers arrive meanwhile.
C33_PerPeerLock ==
    \A c \in Clients, u \in Clients : Cardinality(RunningOperations(c, u)) <= 1

(* ------------------------------- C36 ----------------------------------- *)

\* The calls of client c for the remote user id u that have not returned.
PendingCalls(c, u) ==
    {t \in DOMAIN service[c].tasks : service[c].tasks[t].userId = u}

\* No stream occurs twice among the 'remote-stream-removed' events.
RemovedOnce(c) ==
    \A i, j \in 1..Len(service[c].removed) :
        service[c].removed[i] = service[c].removed[j] => i = j

\* C36: when a client has handled user-left for X, no message has reached
\* it since, and every call for X that was under way has returned, it keeps
\* no peer connection and no remote stream for X and has emitted
\* remote-stream-removed at most once per stream.
C36_CleanupOnDeparture ==
    \A c \in Clients :
        \A m \in delivered[c] :
            (/\ m.type = "user-left"
             /\ service[c].spawned = m.spawned
             /\ PendingCalls(c, m.userId) = {})
            => /\ m.userId \notin DOMAIN service[c].peerConnections
               /\ m.userId \notin DOMAIN service[c].remoteStreams
               /\ RemovedOnce(c)

(* ------------------------------- C34 ----------------------------------- *)

\* The peer connection client c keeps for the other client.
HasPc(c) == Peer(c) \in DOMAIN service[c].peerConnections
PcFor(c) == service[c].pcs[service[c].peerConnections[Peer(c)]]

\* Both clients keep a peer connection for the other, both are stable, and
\* the local description of each is the remote description of the other.
Established ==
    /\ \A c \in Clients : HasPc(c) /\ PcFor(c).signalingState = "stable"
    /\ PcFor("A").localDescription # None
    /\ PcFor("A").remoteDescription # None
    /\ PcFor("A").localDescription = PcFor("B").remoteDescription
    /\ PcFor("A").remoteDescription = PcFor("B").localDescription

\* C34: two clients in one room, both with a local stream, end up, under fair
\* scheduling and whatever the interleaving, each with a stable peer
\* connection for the other, negotiated from the same offer and answer.
C34_EstablishmentIsLive == <>[]Established

(* ------------------------------- C35 ----------------------------------- *)

\* The offer or answer messages client c has handled that carry the local
\* description of the peer connection candidate message m comes from.
DescriptionsFor(c, m) ==
    {d \in delivered[c] :
        /\ d.type \in {"offer", "answer"}
        /\ d.data.by = m.data.by
        /\ d.data.pc = m.data.pc}

\* Client c has added the candidate of m to a peer connection whose remote
\* description is d.
Added(c, m, d) ==
    \E k \in 1..Len(service[c].pcs) :
        /\ service[c].pcs[k].remoteDescription = d.data
        /\ m.data \in service[c].pcs[k].added

\* No message is on its way to c and none of its calls is waiting.
Idle(c) == channel[c] = <<>> /\ service[c].tasks = <<>>

\* C35: once a client has nothing left to handle, every ice-candidate it was
\* delivered from a peer connection whose offer or answer it was delivered
\* too has been added to the peer connection negotiated from that
\* description.
C35_NoCandidateLost ==
    \A c \in Clients :
        Idle(c) =>
            \A m \in delivered[c] :
                m.type = "ice-candidate" =>
                    \A d \in DescriptionsFor(c, m) : Added(c, m, d)

(* ------------------------------- C37 ----------------------------------- *)

\* The handleAnswer calls of service s that await setRemoteDescription.
AnswerCalls(s) ==
    {t \in DOMAIN s.tasks : s.tasks[t].fn = "handleAnswer"}

\* C37: a client that handles an answer calls setRemoteDescription with it,
\* on the peer connection it keeps for the sender, exactly when that
\* connection exists, is not closed and is in have-local-offer; otherwise
\* the service, its peer connections and their states stay as they were.  No
\* exception escapes either way.
C37_AnswerGuard ==
    [][event'.op = "answer"
       => LET c == event'.client
              u == event'.message.fromUserId
              s == service[c]
              kept == u \in DOMAIN s.peerConnections
              fit == /\ kept
                     /\ s.pcs[s.peerConnections[u]].connectionState # "closed"
                     /\ s.pcs[s.peerConnections[u]].signalingState
                           = "have-local-offer"
          IN  /\ fit =>
                    \E t \in AnswerCalls(service'[c]) \ AnswerCalls(s) :
                        /\ service'[c].tasks[t].pc = s.peerConnections[u]
                        /\ service'[c].tasks[t].data = event'.message.data
                        /\ service'[c].pcs = s.pcs
                        /\ service'[c].peerConnections = s.peerConnections
              /\ ~fit => service'[c] = s
              /\ ~event'.escaped]_vars

\* An answer was handled and setRemoteDescription applied it: the peer
\* connection kept for the sender is stable with the answer as its remote
\* description.
C37_Witness ==
    \E c \in Clients :
        /\ HasPc(c)
        /\ PcFor(c).signalingState = "stable"
        /\ PcFor(c).remoteDescription.type = "answer"
        /\ \E m \in delivered[c] : m.type = "answer"
                                    /\ m.data = PcFor(c).remoteDescription

====
